---- MODULE Spec2Model ----
(***************************************************************************)
(* ALTIDES (src/src/altides.py): the captioning client, the three format   *)
(* adapters (process_pptx, process_docx, process_pdf) and the batch driver *)
(* (process_file, process_folder), as one sequential state machine over a  *)
(* small file system.                                                      *)
(*                                                                         *)
(* A document is a flat sequence of items in traversal order (the order of *)
(* the nested "for slide / for shape" and "for page / for block" loops),   *)
(* each item carrying the slide or page it sits on.  What the libraries    *)
(* can answer is part of the environment: a file may fail to open or to    *)
(* save, an image may fail to give its bytes or to take its description,   *)
(* and every captioning request gets one of the HTTP outcomes.             *)
(***************************************************************************)
EXTENDS Integers, Sequences, FiniteSets, TLC

\* ------------------------------------------------------------------ bounds
MaxItems == 2   \* items (shapes, inline shapes, blocks) of a document
MaxPages == 2   \* slides / pages the items are spread over
MaxFiles == 2   \* files of a generated folder
MaxRuns  == 2   \* top-level calls (process_file / process_folder) in a row

\* --------------------------------------------------------------- constants
MIN_SIZE == 20  \* "if width < 20 or height < 20"
MIN_RES  == 36  \* "if xres < 36 or yres < 36"

\* -------------------------------------------------------------- file names
PPTX == <<".", "p", "p", "t", "x">>
DOCX == <<".", "d", "o", "c", "x">>
PDF  == <<".", "p", "d", "f">>
TXT  == <<".", "t", "x", "t">>
PDF_UPPER == <<".", "P", "D", "F">>

SUPPORTED_EXTENSIONS == <<PPTX, DOCX, PDF>>

\* str.lower() on the characters an extension is written with
LowerChar(c) ==
    CASE c = "P" -> "p"
      [] c = "D" -> "d"
      [] c = "F" -> "f"
      [] c = "T" -> "t"
      [] c = "X" -> "x"
      [] OTHER -> c

Lower(s) == [i \in 1..Len(s) |-> LowerChar(s[i])]

\* A path: directory below the folder ("" is the folder itself), whether a
\* component starts with a dot, the stem without "_alt" suffixes, the number of
\* "_alt" suffixes the stem ends with, and the extension as written.
Path(dir, hidden, base, alts, ext) ==
    [dir |-> dir, hidden |-> hidden, base |-> base, alts |-> alts, ext |-> ext]

\* base, ext = os.path.splitext(file_path); output_file = base + "_alt" + ext
\* (variant: the output saved over the source itself)
MutOutputInPlace(file_path) == file_path
OutputFile(file_path) == [file_path EXCEPT !.alts = @ + 1]

\* The extension process_file compares: os.path.splitext(file_path)[1].lower()
DispatchExt(file_path) == Lower(file_path.ext)

\* glob.glob(os.path.join(folder_path, f"**/*{ext}"), recursive=True): "**"
\* reaches every depth, a name or directory starting with a dot is not matched,
\* and the name is compared through os.path.normcase, which folds case on
\* Windows and nowhere else.
\* (variant: the pattern without the extension, "**/*")
MutGlobMatchesAnyFile(p, ext, folds) == ~p.hidden
GlobMatches(p, ext, folds) ==
    /\ ~p.hidden
    /\ IF folds THEN Lower(p.ext) = Lower(ext) ELSE p.ext = ext

\* --------------------------------------------------------------- documents
\* An optional value is a sequence of at most one element: None is empty (and
\* false in "if output:"), a returned path p is <<p>>.
None == <<>>
Some(v) == <<v>>

\* The fixed string generate_alt_text returns on any failure
PLACEHOLDER == <<"ALT_TEXT_ERROR">>

\* PPTX shapes: pictures (embedded, linked without embedded image, or with a
\* description that cannot be written) and one non-picture shape type.
PptxShapes ==
    {[type |-> "PICTURE", fault |-> f, descr |-> <<>>] : f \in {"none", "extract", "write"}}
    \cup {[type |-> "AUTO_SHAPE", fault |-> "none", descr |-> <<>>]}

\* DOCX inline shapes: pictures, and an inline chart (no pic element).
DocxShapes ==
    {[type |-> "PICTURE", fault |-> f, descr |-> <<>>] : f \in {"none", "extract", "write"}}
    \cup {[type |-> "CHART", fault |-> "none", descr |-> <<>>]}

\* PDF blocks of page.get_text("dict"): text blocks (type 0) and image blocks
\* (type 1) with width, height, xres, yres around the thresholds; an image
\* block may lack one of the four keys.
PdfDims == {MIN_SIZE - 1, MIN_SIZE}
PdfRes  == {MIN_RES - 1, MIN_RES}
PdfKeys == {"width", "height", "xres", "yres"}

FullBlock(w, h, x, y, f) ==
    [type |-> 1, fault |-> f, boxes |-> <<>>, width |-> w, height |-> h, xres |-> x, yres |-> y]

Without(b, k) == [f \in (DOMAIN b) \ {k} |-> b[f]]

PdfBlocks ==
    {[type |-> 0, fault |-> "none", boxes |-> <<>>]}
    \cup {FullBlock(w, h, x, y, "none") : w \in PdfDims, h \in PdfDims, x \in PdfRes, y \in PdfRes}
    \cup {Without(FullBlock(MIN_SIZE, MIN_SIZE, MIN_RES, MIN_RES, "none"), k) : k \in PdfKeys}
    \cup {FullBlock(MIN_SIZE, MIN_SIZE, MIN_RES, MIN_RES, f) : f \in {"extract", "write"}}

ItemsOf(ext) ==
    CASE ext = PPTX -> PptxShapes
      [] ext = DOCX -> DocxShapes
      [] ext = PDF  -> PdfBlocks
      [] OTHER -> {}

\* Item b with the slide / page it sits on
OnPage(b, n) == [k \in (DOMAIN b) \cup {"page"} |-> IF k = "page" THEN n ELSE b[k]]

NonDecreasing(pg) == \A i \in DOMAIN pg : \A j \in DOMAIN pg : i <= j => pg[i] <= pg[j]

\* Every item sequence of at most MaxItems items over at most MaxPages pages
ItemSeqs(ext) ==
    UNION {{[i \in 1..n |-> OnPage(s[i], pg[i])] :
                s \in [1..n -> ItemsOf(ext)],
                pg \in {q \in [1..n -> 1..(IF ext = DOCX THEN 1 ELSE MaxPages)] : NonDecreasing(q)}}
           : n \in 0..MaxItems}

\* A file's content: the items, and what the file system and the library do
\* with the file ("open": Presentation / Document / fitz.open raises on it;
\* "save": the save of its output raises and leaves the disk as it was).  A
\* fault belongs to the file, so it is the same in every call on that file.
Doc(fault, items) == [fault |-> fault, items |-> items]

RichDocs(ext) == {Doc(f, s) : f \in {"none", "open", "save"}, s \in ItemSeqs(ext)}

\* One captionable image on the first page
OneImage(ext) ==
    CASE ext = PPTX -> <<OnPage([type |-> "PICTURE", fault |-> "none", descr |-> <<>>], 1)>>
      [] ext = DOCX -> <<OnPage([type |-> "PICTURE", fault |-> "none", descr |-> <<>>], 1)>>
      [] ext = PDF  -> <<OnPage(FullBlock(MIN_SIZE, MIN_SIZE, MIN_RES, MIN_RES, "none"), 1)>>
      [] OTHER -> <<>>

SimpleDocs(ext) ==
    IF Lower(ext) \in {PPTX, DOCX, PDF}
    THEN {Doc("none", OneImage(Lower(ext))), Doc("none", <<>>),
          Doc("open", <<>>), Doc("save", OneImage(Lower(ext)))}
    ELSE {Doc("none", <<>>)}

\* ------------------------------------------------------------- the folders
FolderPaths ==
    { Path("", FALSE, "a", 0, PPTX), Path("", FALSE, "a", 1, PPTX),
      Path("", FALSE, "b", 0, DOCX), Path("sub", FALSE, "c", 0, PDF),
      Path("", FALSE, "d", 0, TXT),  Path("", FALSE, "e", 0, PDF_UPPER),
      Path("", TRUE, "h", 0, DOCX) }

\* one file with any content of its format
SingleFileFolders ==
    UNION {{[p \in {Path("", FALSE, "a", 0, ext)} |-> d] : d \in RichDocs(ext)}
           : ext \in {PPTX, DOCX, PDF}}

\* at most MaxFiles files with simple contents
SmallFolders ==
    UNION {{f \in [S -> UNION {SimpleDocs(p.ext) : p \in S}] :
                \A p \in S : f[p] \in SimpleDocs(p.ext)}
           : S \in {T \in SUBSET FolderPaths : Cardinality(T) \in 1..MaxFiles}}

\* one file of each supported extension and one unsupported file
MixedPaths ==
    { Path("", FALSE, "a", 0, PPTX), Path("", FALSE, "b", 0, DOCX),
      Path("", FALSE, "c", 0, PDF),  Path("", FALSE, "d", 0, TXT) }

MixedFolders ==
    {f \in [MixedPaths -> UNION {SimpleDocs(p.ext) : p \in MixedPaths}] :
        \A p \in MixedPaths : f[p] \in SimpleDocs(p.ext)}

Folders == SingleFileFolders \cup SmallFolders \cup MixedFolders

\* ------------------------------------------------------- captioning client
\* What requests.post / raise_for_status / response.json() can give
Responses ==
    { [transport |-> "ok",      status |-> 200, json |-> TRUE,  content |-> <<" ", "a cat", "\n">>],
      [transport |-> "error",   status |-> 0,   json |-> FALSE, content |-> <<>>],
      [transport |-> "timeout", status |-> 0,   json |-> FALSE, content |-> <<>>],
      [transport |-> "ok",      status |-> 500, json |-> TRUE,  content |-> <<"oops">>],
      [transport |-> "ok",      status |-> 200, json |-> FALSE, content |-> <<>>] }

IsSpace(c) == c \in {" ", "\n", "\t"}

\* str.strip()
RECURSIVE LStrip(_)
LStrip(s) == IF s # <<>> /\ IsSpace(Head(s)) THEN LStrip(Tail(s)) ELSE s

RECURSIVE RStrip(_)
RStrip(s) == IF s # <<>> /\ IsSpace(s[Len(s)]) THEN RStrip(SubSeq(s, 1, Len(s) - 1)) ELSE s

Strip(s) == RStrip(LStrip(s))

\* The try block of generate_alt_text succeeds: the request went through,
\* raise_for_status passed (status below 400) and the JSON has the content.
CaptionOk(r) == r.transport = "ok" /\ r.status < 400 /\ r.json

generate_alt_text(r) == IF CaptionOk(r) THEN Strip(r.content) ELSE PLACEHOLDER

\* ---------------------------------------------------------------- adapters
\* shape.shape_type == MSO_SHAPE_TYPE.PICTURE
\* (variant: the shape type is not tested)
MutIsPictureAny(shape) == TRUE
IsPicture(shape) == shape.type = "PICTURE"

\* b.get(key, 0)
Get(b, k, d) == IF k \in DOMAIN b THEN b[k] ELSE d

\* if width < 20 or height < 20: continue
\* (variant: "<=" for "<")
MutSkipSmall(b) == Get(b, "width", 0) <= MIN_SIZE \/ Get(b, "height", 0) <= MIN_SIZE
SkipSmall(b) == Get(b, "width", 0) < MIN_SIZE \/ Get(b, "height", 0) < MIN_SIZE

\* if xres < 36 or yres < 36: continue
SkipLowRes(b) == Get(b, "xres", 0) < MIN_RES \/ Get(b, "yres", 0) < MIN_RES

\* html_text = f"<p>{alt_text}</p>"
HtmlText(alt_text) == <<"<p>">> \o alt_text \o <<"</p>">>

\* "except Exception as e" around one image: which failing step it catches
\* (variant: a handler that catches the extraction errors only)
MutExceptCatchesExtractOnly(step) == step = "extract"
ExceptCatches(step) == TRUE

\* Whether the adapter looks at the item at all: the picture test of
\* process_pptx, every inline shape in process_docx, "type" == 1 in process_pdf
Selected(ext, it) ==
    CASE ext = PPTX -> IsPicture(it)
      [] ext = DOCX -> TRUE
      [] ext = PDF  -> it.type = 1

\* Whether the try block gets past the size and resolution filters
Filtered(ext, it) == ext = PDF /\ (SkipSmall(it) \/ SkipLowRes(it))

\* Whether getting the image bytes raises: shape.image.blob of a picture with
\* no embedded image, the embed id of an inline shape without pic element or
\* with a dangling relationship, b["image"]
ExtractRaises(ext, it) ==
    \/ it.fault = "extract"
    \/ ext = DOCX /\ it.type # "PICTURE"

\* The item after its description is written
Described(ext, it, alt_text) ==
    IF ext = PDF
    THEN [it EXCEPT !.boxes = Append(@, HtmlText(alt_text))]
    ELSE [it EXCEPT !.descr = alt_text]

\* One pass of the loop body over one item, given the captioning outcome r.
\* step: where the body ended ("skip", "filtered", "extract", "write", "done").
Body(ext, it, r) ==
    IF ~Selected(ext, it) THEN
        [step |-> "skip", item |-> it, read |-> FALSE, text |-> None]
    ELSE IF Filtered(ext, it) THEN
        [step |-> "filtered", item |-> it, read |-> FALSE, text |-> None]
    ELSE IF ExtractRaises(ext, it) THEN
        [step |-> "extract", item |-> it, read |-> TRUE, text |-> None]
    ELSE IF it.fault = "write" THEN
        [step |-> "write", item |-> it, read |-> TRUE, text |-> Some(generate_alt_text(r))]
    ELSE
        [step |-> "done", item |-> Described(ext, it, generate_alt_text(r)),
         read |-> TRUE, text |-> Some(generate_alt_text(r))]

\* ------------------------------------------------------------------- state
VARIABLES
    fs,               \* the files: path -> content
    folds,            \* os.path.normcase folds case (Windows)
    runs,             \* top-level calls started
    pc,               \* where the program is
    mode,             \* "file" or "folder": the top-level call
    extIdx,           \* process_folder: index into SUPPORTED_EXTENSIONS
    pending,          \* process_folder: files of the glob not yet processed
    processed_files,  \* process_folder: the list it accumulates
    handed,           \* paths given to process_file in this top-level call
    file_path,        \* the adapter's argument
    kind,             \* the adapter chosen: its extension
    doc,              \* the adapter's in-memory document (its items)
    idx,              \* the next item of the traversal
    updated,          \* the adapter's flag
    trail,            \* per item handled in this adapter call: what happened
    ret,              \* what process_file returned
    outcome,          \* of the last top-level call: "none", "returned", "raised"
    result,           \* what the last top-level call gave the shell
    log,              \* the log file: appended lines
    mark,             \* length of the log when the top-level call started
    written,          \* paths saved in this top-level call
    sources,          \* paths opened as source documents in this top-level call
    hist              \* finished adapter calls, in order

vars == <<fs, folds, runs, pc, mode, extIdx, pending, processed_files, handed,
          file_path, kind, doc, idx, updated, trail, ret, outcome, result,
          log, mark, written, sources, hist>>

driver  == <<mode, extIdx, pending, processed_files, handed>>
adapter == <<file_path, kind, doc, idx, updated, trail>>
top     == <<outcome, result, mark>>

Line(level, event, path, item) ==
    [level |-> level, event |-> event, path |-> path, item |-> item]

NoPath == Path("", FALSE, "", 0, <<>>)

Init ==
    /\ fs \in Folders
    /\ folds \in BOOLEAN
    /\ runs = 0
    /\ pc = "idle"
    /\ mode = "none"
    /\ extIdx = 0
    /\ pending = {}
    /\ processed_files = <<>>
    /\ handed = <<>>
    /\ file_path = NoPath
    /\ kind = <<>>
    /\ doc = <<>>
    /\ idx = 0
    /\ updated = FALSE
    /\ trail = <<>>
    /\ ret = None
    /\ outcome = "none"
    /\ result = <<>>
    /\ log = <<>>
    /\ mark = 0
    /\ written = <<>>
    /\ sources = <<>>
    /\ hist = <<>>

\* ------------------------------------------------------------------ helpers
\* The file system after a save of content d at path q
Put(f, q, d) == [x \in (DOMAIN f) \cup {q} |-> IF x = q THEN d ELSE f[x]]

\* A finished adapter call, for comparing calls with each other
Call(path, src, tr, raised, value, out) ==
    [path |-> path, src |-> src, trail |-> tr, raised |-> raised, ret |-> value, out |-> out]

\* An exception leaves the adapter, process_file and, in a folder run,
\* process_folder: nothing catches it before the shell's callback.
Propagate ==
    /\ pc' = "idle"
    /\ outcome' = "raised"
    /\ result' = <<>>
    /\ ret' = None

\* Presentation(file_path) / Document(file_path) / fitz.open(file_path): the
\* document is read from the source file and from nothing else
\* (variant: an earlier output, when there is one, is loaded in its place)
MutLoadPreferOutput(f, path) ==
    IF OutputFile(path) \in DOMAIN f THEN f[OutputFile(path)].items ELSE f[path].items
Load(f, path) == f[path].items

\* ------------------------------------------------------------ batch driver
\* The shell calls process_file(path) on a selected file
StartFile(p) ==
    /\ pc = "idle"
    /\ runs < MaxRuns
    /\ p \in DOMAIN fs
    /\ runs' = runs + 1
    /\ mode' = "file"
    /\ file_path' = p
    /\ handed' = <<p>>
    /\ pc' = "dispatch"
    /\ extIdx' = 0 /\ pending' = {} /\ processed_files' = <<>>
    /\ outcome' = "none" /\ result' = <<>> /\ ret' = None
    /\ mark' = Len(log) /\ written' = <<>> /\ sources' = <<>>
    /\ UNCHANGED <<fs, folds, kind, doc, idx, updated, trail, log, hist>>

\* The shell calls process_folder(path): processed_files = []
StartFolder ==
    /\ pc = "idle"
    /\ runs < MaxRuns
    /\ runs' = runs + 1
    /\ mode' = "folder"
    /\ handed' = <<>>
    /\ pc' = "glob"
    /\ extIdx' = 1 /\ pending' = {} /\ processed_files' = <<>>
    /\ outcome' = "none" /\ result' = <<>> /\ ret' = None
    /\ mark' = Len(log) /\ written' = <<>> /\ sources' = <<>>
    /\ UNCHANGED <<fs, folds, file_path, kind, doc, idx, updated, trail, log, hist>>

\* for ext in SUPPORTED_EXTENSIONS: glob.glob(...) lists the matching files now
Glob ==
    /\ pc = "glob"
    /\ extIdx <= Len(SUPPORTED_EXTENSIONS)
    /\ pending' = {p \in DOMAIN fs : GlobMatches(p, SUPPORTED_EXTENSIONS[extIdx], folds)}
    /\ pc' = "loop"
    /\ UNCHANGED <<fs, folds, runs, mode, extIdx, processed_files, handed, adapter,
                   ret, top, log, written, sources, hist>>

\* for file_path in <the glob's list, in the order the file system gave>
NextFile ==
    /\ pc = "loop"
    /\ \E f \in pending :
        /\ pending' = pending \ {f}
        /\ file_path' = f
        /\ handed' = Append(handed, f)
    /\ pc' = "dispatch"
    /\ UNCHANGED <<fs, folds, runs, mode, extIdx, processed_files, kind, doc, idx,
                   updated, trail, ret, top, log, written, sources, hist>>

\* the inner loop is exhausted: next extension
ExtDone ==
    /\ pc = "loop"
    /\ pending = {}
    /\ extIdx' = extIdx + 1
    /\ pc' = "glob"
    /\ UNCHANGED <<fs, folds, runs, mode, pending, processed_files, handed, adapter,
                   ret, top, log, written, sources, hist>>

\* return processed_files
FolderReturn ==
    /\ pc = "glob"
    /\ extIdx > Len(SUPPORTED_EXTENSIONS)
    /\ outcome' = "returned"
    /\ result' = processed_files
    /\ pc' = "idle"
    /\ UNCHANGED <<fs, folds, runs, driver, adapter, ret, mark, log, written, sources, hist>>

\* process_file: dispatch on the lowercased extension, or warn
Dispatch ==
    /\ pc = "dispatch"
    /\ IF DispatchExt(file_path) \in {PPTX, DOCX, PDF}
       THEN /\ kind' = DispatchExt(file_path)
            /\ pc' = "open"
            /\ UNCHANGED <<ret, log>>
       ELSE /\ log' = Append(log, Line("WARNING", "unsupported", file_path, 0))
            /\ ret' = None
            /\ pc' = "file_done"
            /\ UNCHANGED kind
    /\ UNCHANGED <<fs, folds, runs, driver, file_path, doc, idx, updated, trail,
                   top, written, sources, hist>>

\* output = process_file(file_path) has returned: to the shell, or
\* "if output: processed_files.append(output)"
FileDone ==
    /\ pc = "file_done"
    /\ IF mode = "file"
       THEN /\ outcome' = "returned"
            /\ result' = ret
            /\ pc' = "idle"
            /\ UNCHANGED processed_files
       ELSE /\ processed_files' = IF ret # None THEN Append(processed_files, ret[1])
                                  ELSE processed_files
            /\ pc' = "loop"
            /\ UNCHANGED <<outcome, result>>
    /\ UNCHANGED <<fs, folds, runs, mode, extIdx, pending, handed, adapter, ret,
                   mark, log, written, sources, hist>>

\* ---------------------------------------------------------------- adapters
\* logging.info("Processing ..."); Presentation(file_path) / Document(file_path)
\* / fitz.open(file_path); updated = False
Open ==
    /\ pc = "open"
    /\ log' = Append(log, Line("INFO", "processing", file_path, 0))
    /\ sources' = Append(sources, file_path)
    /\ IF fs[file_path].fault = "open"
       THEN /\ Propagate
            /\ hist' = Append(hist, Call(file_path, fs[file_path], <<>>, TRUE, None, None))
            /\ UNCHANGED <<doc, idx, updated, trail>>
       ELSE /\ doc' = Load(fs, file_path)
            /\ idx' = 1
            /\ updated' = FALSE
            /\ trail' = <<>>
            /\ pc' = "items"
            /\ UNCHANGED <<ret, outcome, result, hist>>
    /\ UNCHANGED <<fs, folds, runs, driver, file_path, kind, mark, written>>

\* One iteration of the loop over shapes / inline shapes / blocks, the
\* captioning request included
HandleItem ==
    /\ pc = "items"
    /\ idx <= Len(doc)
    /\ \E r \in Responses :
        LET b      == Body(kind, doc[idx], r)
            called == b.text # None
            failed == called /\ ~CaptionOk(r)
            caught == b.step \in {"extract", "write"}
            lines  == (IF failed THEN <<Line("ERROR", "caption_error", file_path, idx)>> ELSE <<>>)
                      \o (IF caught THEN <<Line("ERROR", "image_error", file_path, idx)>> ELSE <<>>)
                      \o (IF b.step = "done" THEN <<Line("INFO", "updated", file_path, idx)>> ELSE <<>>)
            entry  == [i |-> idx, step |-> b.step, read |-> b.read, text |-> b.text, failed |-> failed]
        IN  IF caught /\ ~ExceptCatches(b.step)
            THEN /\ Propagate
                 /\ log' = log \o SubSeq(lines, 1, IF failed THEN 1 ELSE 0)
                 /\ hist' = Append(hist, Call(file_path, fs[file_path], Append(trail, entry),
                                            TRUE, None, None))
                 /\ UNCHANGED <<doc, idx, updated, trail>>
            ELSE /\ doc' = [doc EXCEPT ![idx] = b.item]
                 /\ updated' = (updated \/ b.step = "done")
                 /\ trail' = Append(trail, entry)
                 /\ log' = log \o lines
                 /\ idx' = idx + 1
                 /\ UNCHANGED <<pc, ret, outcome, result, hist>>
    /\ UNCHANGED <<fs, folds, runs, driver, file_path, kind, mark, written, sources>>

\* if updated: save to base + "_alt" + ext and return it; return None
Finish ==
    /\ pc = "items"
    /\ idx > Len(doc)
    /\ IF updated /\ fs[file_path].fault = "save"
       THEN /\ Propagate
            /\ hist' = Append(hist, Call(file_path, fs[file_path], trail, TRUE, None, None))
            /\ UNCHANGED <<fs, log, written>>
       ELSE IF updated
       THEN /\ fs' = Put(fs, OutputFile(file_path), Doc("none", doc))
            /\ written' = Append(written, OutputFile(file_path))
            /\ log' = Append(log, Line("INFO", "saved", OutputFile(file_path), 0))
            /\ ret' = Some(OutputFile(file_path))
            /\ pc' = "file_done"
            /\ hist' = Append(hist, Call(file_path, fs[file_path], trail, FALSE,
                                       Some(OutputFile(file_path)), Some(Doc("none", doc))))
            /\ UNCHANGED <<outcome, result>>
       ELSE /\ ret' = None
            /\ pc' = "file_done"
            /\ hist' = Append(hist, Call(file_path, fs[file_path], trail, FALSE, None, None))
            /\ UNCHANGED <<fs, log, written, outcome, result>>
    /\ UNCHANGED <<folds, runs, driver, adapter, mark, sources>>

Next ==
    \/ \E p \in DOMAIN fs : StartFile(p)
    \/ StartFolder
    \/ Glob
    \/ NextFile
    \/ ExtDone
    \/ FolderReturn
    \/ Dispatch
    \/ FileDone
    \/ Open
    \/ HandleItem
    \/ Finish

Spec == Init /\ [][Next]_vars

\* ------------------------------------------------------------- vocabulary
Range(q) == {q[i] : i \in DOMAIN q}
Count(q, x) == Cardinality({i \in DOMAIN q : q[i] = x})

Supported(p) == DispatchExt(p) \in {PPTX, DOCX, PDF}

\* the top-level call has ended (returned to the shell, or raised into it)
Ended == pc = "idle" /\ runs > 0

\* the log lines of this top-level call
ThisCall == (mark + 1)..Len(log)

\* the description an item carries: the descr attribute, or for a PDF block
\* the last text box put on its bounding box
Description(ext, it) ==
    IF ext = PDF
    THEN (IF it.boxes = <<>> THEN <<>> ELSE it.boxes[Len(it.boxes)])
    ELSE it.descr

Written(ext, alt_text) == IF ext = PDF THEN HtmlText(alt_text) ELSE alt_text

KindOf(c) == Lower(c.path.ext)

\* the texts generate_alt_text returned during an adapter call, in order
Texts(c) == [k \in DOMAIN c.trail |-> c.trail[k].text]

SomeDone(c) == \E k \in DOMAIN c.trail : c.trail[k].step = "done"

\* width >= 20 and height >= 20 and xres >= 36 and yres >= 36, a missing
\* attribute counting as 0
PassesThresholds(b) ==
    /\ "width" \in DOMAIN b  /\ b.width >= 20
    /\ "height" \in DOMAIN b /\ b.height >= 20
    /\ "xres" \in DOMAIN b   /\ b.xres >= 36
    /\ "yres" \in DOMAIN b   /\ b.yres >= 36

\* ------------------------------------------------------------------ claims

\* C1: a failure inside one document's processing (opening, an image, saving)
\* never aborts process_folder: it ends by returning, with every discovered
\* file processed and every saved output in the returned list.
C1_FolderNeverAborts ==
    (Ended /\ mode = "folder") =>
        /\ outcome = "returned"
        /\ pending = {}
        /\ Range(written) \subseteq Range(result)

\* C2: an image whose caption call fails gets exactly the placeholder from
\* generate_alt_text, the adapter writes the placeholder as its description
\* and sets updated, and the document's output path is returned and is in what
\* the top-level call reports.
C2_PlaceholderWrittenAndReported ==
    /\ pc = "items" =>
           \A k \in DOMAIN trail :
               trail[k].failed =>
                   /\ trail[k].text = Some(PLACEHOLDER)
                   /\ trail[k].step = "done" =>
                          /\ updated
                          /\ Description(kind, doc[k]) = Written(kind, PLACEHOLDER)
    /\ Ended =>
           \A n \in ThisCall :
               (/\ log[n].event = "caption_error"
                /\ \E m \in ThisCall : /\ log[m].event = "updated"
                                       /\ log[m].path = log[n].path
                                       /\ log[m].item = log[n].item)
               => OutputFile(log[n].path) \in Range(result)

\* C3 (as stated): process_folder on one sound file of each supported extension, each with
\* a captionable image, and one unsupported file returns exactly the three
\* <stem>_alt<ext> paths and logs exactly one warning, for the unsupported file.
C3_ThreeOutputsOneWarning ==
    (/\ Ended /\ mode = "folder" /\ runs = 1
     /\ (DOMAIN fs) \ Range(written) = MixedPaths
     /\ \A p \in MixedPaths : Supported(p) => fs[p].fault = "none" /\ fs[p].items # <<>>)
    =>
    /\ outcome = "returned"
    /\ Len(result) = 3
    /\ Range(result) = {OutputFile(p) : p \in {q \in MixedPaths : Supported(q)}}
    /\ Cardinality({n \in ThisCall : log[n].level = "WARNING"}) = 1
    /\ \A n \in ThisCall : log[n].level = "WARNING" => ~Supported(log[n].path)

\* C3 (amended): a folder run logs no warning, because it hands process_file
\* no file of an unsupported extension; on one sound file of each supported
\* extension, each with a captionable image, and one unsupported file it
\* returns exactly the three <stem>_alt<ext> paths.
C3_ThreeOutputsNoWarning ==
    /\ mode = "folder" =>
           /\ \A n \in ThisCall : log[n].level # "WARNING"
           /\ \A i \in DOMAIN handed : Supported(handed[i])
    /\ (/\ Ended /\ mode = "folder" /\ runs = 1
        /\ (DOMAIN fs) \ Range(written) = MixedPaths
        /\ \A p \in MixedPaths : Supported(p) => fs[p].fault = "none" /\ fs[p].items # <<>>)
       =>
       /\ outcome = "returned"
       /\ Len(result) = 3
       /\ Range(result) = {OutputFile(p) : p \in {q \in MixedPaths : Supported(q)}}
       /\ Range(result) \subseteq DOMAIN fs

\* C3 witness: the folder run over the four files has returned three outputs
\* and the log of the run holds no warning
C3_Witness_MixedFolderDone ==
    /\ Ended /\ mode = "folder" /\ runs = 1
    /\ (DOMAIN fs) \ Range(written) = MixedPaths
    /\ outcome = "returned"
    /\ Len(result) = 3
    /\ \A n \in ThisCall : log[n].level # "WARNING"

\* C4 (as stated): no file opened as a source document during a top-level call
\* is saved over at any point of that call.
C4_NoSourceEverWritten == Range(written) \cap Range(sources) = {}

\* C4 (amended): a step changes the file system only as the save of the running
\* adapter, only at <stem>_alt<ext> of that adapter's own source, which is
\* another path than the source; no file is removed.
C4_OnlyOwnOutputWritten ==
    [][/\ DOMAIN fs \subseteq DOMAIN fs'
       /\ \A q \in DOMAIN fs' :
              (q \notin DOMAIN fs \/ fs'[q] # fs[q]) =>
                  /\ pc = "items"
                  /\ q = [file_path EXCEPT !.alts = @ + 1]
                  /\ q # file_path
       /\ Len(written') > Len(written) =>
              /\ pc = "items"
              /\ written' = Append(written, [file_path EXCEPT !.alts = @ + 1])
              /\ fs'[file_path] = fs[file_path]]_vars

\* C4 witness: an output saved in this call is also a source document of it
C4_Witness_OutputIsAlsoSource ==
    \E i \in DOMAIN written : \E j \in DOMAIN sources :
        /\ written[i] = sources[j]
        /\ written[i].alts = 1

\* C5: an adapter call saves <stem>_alt<ext> and returns that path exactly when
\* a description was written during it; otherwise it saves nothing and
\* returns None.
C5_SavesAndReturnsIffUpdated ==
    \A n \in DOMAIN hist :
        LET c == hist[n] IN
        c.src.fault # "open" =>
            /\ SomeDone(c) <=> (c.ret = Some(OutputFile(c.path)) /\ c.out # None)
            /\ ~SomeDone(c) => (c.ret = None /\ c.out = None /\ ~c.raised)

\* C6 (as stated): an image block is captioned and gets its text box exactly
\* when it meets the four thresholds.
C6_CaptionedAndInsertedIffThresholds ==
    \A n \in DOMAIN hist :
        LET c == hist[n] IN
        KindOf(c) = PDF =>
            \A k \in DOMAIN c.trail :
                c.src.items[k].type = 1 =>
                    ((c.trail[k].text # None /\ c.trail[k].step = "done")
                        <=> PassesThresholds(c.src.items[k]))

\* C6 (amended): an image block passes the filter exactly when it meets the four
\* thresholds; a passing block is captioned unless reading its bytes raises and
\* gets its text box unless a step of its handling raises; any other image
\* block is neither read nor captioned nor given a box, and only an inserted box
\* sets the updated flag.
C6_ThresholdsDecideTheFilter ==
    \A n \in DOMAIN hist :
        LET c == hist[n] IN
        KindOf(c) = PDF =>
            /\ c.ret # None => SomeDone(c)
            /\ \A k \in DOMAIN c.trail :
                LET b == c.src.items[k]
                    e == c.trail[k]
                IN  b.type = 1 =>
                    /\ (e.step # "filtered") <=> PassesThresholds(b)
                    /\ (e.text # None) <=> (PassesThresholds(b) /\ b.fault # "extract")
                    /\ (e.step = "done") <=> (PassesThresholds(b) /\ b.fault = "none")
                    /\ e.step = "filtered" => ~e.read
                    /\ c.out # None =>
                           c.out[1].items[k].boxes =
                               IF e.step = "done"
                               THEN Append(b.boxes, HtmlText(e.text[1]))
                               ELSE b.boxes

\* C6 witness: one PDF call that skipped a block below a threshold and
\* captioned and boxed a block exactly on all four thresholds
C6_Witness_BoundaryBlocks ==
    \E n \in DOMAIN hist :
        /\ KindOf(hist[n]) = PDF
        /\ \E k \in DOMAIN hist[n].trail : \E j \in DOMAIN hist[n].trail :
            /\ hist[n].trail[k].step = "filtered"
            /\ hist[n].src.items[k].type = 1
            /\ hist[n].trail[j].step = "done"
            /\ hist[n].src.items[j].width = 20 /\ hist[n].src.items[j].height = 20
            /\ hist[n].src.items[j].xres = 36 /\ hist[n].src.items[j].yres = 36
            /\ hist[n].out # None

\* C7 (as stated): a presentation with N picture shapes gets exactly N
\* captioning calls, and its non-picture shapes are untouched.
C7_ExactlyOneCallPerPicture ==
    \A n \in DOMAIN hist :
        LET c == hist[n] IN
        (KindOf(c) = PPTX /\ ~c.raised) =>
            /\ Cardinality({k \in DOMAIN c.trail : c.trail[k].text # None})
                 = Cardinality({k \in DOMAIN c.src.items : c.src.items[k].type = "PICTURE"})
            /\ \A k \in DOMAIN c.trail :
                   c.src.items[k].type # "PICTURE" => ~c.trail[k].read

\* C7 (amended): every shape is visited once, in order; a captioning call is
\* made for exactly the picture shapes whose image bytes can be read; a
\* non-picture shape is never read, never captioned and never changed.
C7_OneCallPerReadablePicture ==
    \A n \in DOMAIN hist :
        LET c == hist[n] IN
        KindOf(c) = PPTX =>
            /\ c.src.fault # "open" => Len(c.trail) = Len(c.src.items)
            /\ \A k \in DOMAIN c.trail :
                LET b == c.src.items[k]
                    e == c.trail[k]
                IN  /\ e.i = k
                    /\ (e.text # None) <=> (b.type = "PICTURE" /\ b.fault # "extract")
                    /\ b.type # "PICTURE" =>
                           /\ ~e.read
                           /\ e.step = "skip"
                           /\ c.out # None => c.out[1].items[k] = b

\* C7 witness: a call that captioned a picture, left a non-picture shape alone
\* and saved its output
C7_Witness_PictureAndOther ==
    \E n \in DOMAIN hist :
        /\ KindOf(hist[n]) = PPTX
        /\ \E k \in DOMAIN hist[n].trail : \E j \in DOMAIN hist[n].trail :
            /\ hist[n].trail[k].text # None
            /\ hist[n].src.items[j].type = "AUTO_SHAPE"
            /\ hist[n].out # None

\* C8: a failure while handling one image is caught and logged; that image
\* keeps its description and does not set the updated flag; the images after
\* it are still handled, in order; the adapter does not raise because of it.
C8_ImageFailureIsContained ==
    \A n \in DOMAIN hist :
        LET c == hist[n] IN
        /\ c.src.fault # "open" =>
               /\ Len(c.trail) = Len(c.src.items)
               /\ \A k \in DOMAIN c.trail : c.trail[k].i = k
        /\ c.raised => (c.src.fault = "open" \/ (c.src.fault = "save" /\ SomeDone(c)))
        /\ c.ret # None => SomeDone(c)
        /\ \A k \in DOMAIN c.trail :
               c.trail[k].step \in {"extract", "write"} =>
                   /\ \E m \in DOMAIN log : /\ log[m].level = "ERROR"
                                            /\ log[m].event = "image_error"
                                            /\ log[m].path = c.path
                                            /\ log[m].item = k
                   /\ c.out # None => c.out[1].items[k] = c.src.items[k]

\* C8 witness: a call whose first image failed while its bytes were read or its
\* description written, whose second image was then described, and which
\* returned its output
C8_Witness_FailureThenSuccess ==
    \E n \in DOMAIN hist :
        /\ Len(hist[n].trail) = 2
        /\ hist[n].trail[1].step \in {"extract", "write"}
        /\ hist[n].trail[2].step = "done"
        /\ ~hist[n].raised
        /\ hist[n].ret = Some(OutputFile(hist[n].path))

\* C9: two calls of an adapter on the same path with the same source content
\* and the same captioning results end the same way: the same returned path and
\* the same saved content, whatever the first call left on disk.
C9_RerunGivesSameOutput ==
    \A n \in DOMAIN hist : \A m \in DOMAIN hist :
        (/\ n < m
         /\ hist[n].path = hist[m].path
         /\ hist[n].src = hist[m].src
         /\ Texts(hist[n]) = Texts(hist[m]))
        => /\ hist[n].ret = hist[m].ret
           /\ hist[n].out = hist[m].out
           /\ hist[n].raised = hist[m].raised

\* C9 witness: a second call on the same source with the same captioning
\* results, run while the first call's output is on disk, that returned
C9_Witness_SecondRunOverOutput ==
    \E n \in DOMAIN hist : \E m \in DOMAIN hist :
        /\ n < m
        /\ hist[n].path = hist[m].path
        /\ hist[n].src = hist[m].src
        /\ Texts(hist[n]) = Texts(hist[m])
        /\ hist[m].ret = Some(OutputFile(hist[m].path))
        /\ hist[m].out = hist[n].out
        /\ hist[m].out # None

\* C10: when process_folder returns, every file under the folder that
\* process_file would dispatch to an adapter was handed to process_file exactly
\* once.
C10_DiscoveryAgreesWithDispatch ==
    (Ended /\ mode = "folder" /\ outcome = "returned") =>
        \A p \in (DOMAIN fs) \ Range(written) : Supported(p) => Count(handed, p) = 1
====
